---- MODULE Spec2Model ----
(***************************************************************************)
(* State-machine model of the two operator scripts of the repository:      *)
(*   archive_and_transcode.py  (script = "archive")                        *)
(*   davinci_transcoder.py     (script = "davinci")                        *)
(* Both walk a source tree (gather_files), mirror the non-media assets     *)
(* into <dest>/<src.name>-265, attach to DaVinci Resolve (init_resolve)    *)
(* and transcode every media file (transcode_with_resolve).  The file      *)
(* system, the Resolve scripting API and the probing tools are the         *)
(* environment: their answers are nondeterministic inputs of the actions.  *)
(***************************************************************************)
EXTENDS Integers, Sequences, FiniteSets, TLC

\* ------------------------------------------------------------------ bounds
\* Largest number of files of a source tree.
MaxFiles == 2
\* Number of consecutive runs of the script against the same source/archive.
MaxRuns == 2
\* Largest number of files of a source tree in the single-run specification.
MaxTree == 3

\* ------------------------------------------------------------ string model
\* str.lower() on the names that occur in the model.
Lower(s) ==
    CASE s = "CLIP" -> "clip"
      [] s = ".MOV" -> ".mov"
      [] s = "b_PROXY" -> "b_proxy"
      [] OTHER -> s

\* `pat in s` (substring test) on the names that occur in the model.
Contains(pat, s) ==
    \/ pat = s
    \/ pat = "_proxy" /\ s \in {"b_proxy.mov", "b_proxy"}
    \/ pat = "a" /\ s \in {"yuva444p10le", "rgba", "gray"}

\* ------------------------------------------------------------ source files
\* A source file: the directories between the source root and the file, the
\* Path.stem, the Path.suffix, the size in bytes and (for video files) the
\* pix_fmt that ffprobe reports.
File(d, st, e, sz, pf) == [dir |-> d, stem |-> st, ext |-> e, size |-> sz, pix_fmt |-> pf]

\* The candidate files of a source tree, in directory-listing order.
Universe ==
    << File(<<"A">>, "clip", ".mov", 2, "yuv420p"),
       File(<<"A">>, "clip", ".mxf", 2, "yuv420p"),
       File(<<"A">>, "clip", ".srt", 1, ""),
       File(<<"A">>, "CLIP", ".xml", 1, ""),
       File(<<"B">>, "clip", ".srt", 1, ""),
       File(<<"B">>, "title", ".mov", 2, "yuva444p10le"),
       File(<<"B">>, "take", ".mov", 2, "yuv420p"),
       File(<<"A", "Exports", "sub">>, "out", ".mov", 2, "yuv420p"),
       File(<<"Proxy">>, "p", ".txt", 1, ""),
       File(<<"B">>, "raw1", ".cr2", 2, ""),
       File(<<"A">>, "b_PROXY", ".MOV", 2, "yuv420p"),
       File(<<"A">>, "clip", ".mp4", 1, "yuv420p") >>

UniverseSet == {Universe[k] : k \in 1..Len(Universe)}

\* The files a source tree of a full run is made of: the others only matter to
\* gather_files.
RunFiles ==
    UniverseSet \ {f \in UniverseSet : f.stem \in {"raw1", "b_PROXY", "p"} \/ f.ext = ".mp4"}

\* Position of a file in the directory-listing order.
Index(f) == CHOOSE k \in 1..Len(Universe) : Universe[k] = f

\* Names of directories, in listing order.
DirNames == <<"A", "B", "Exports", "Proxy", "sub">>

Scripts == {"archive", "davinci"}

\* EXCLUDE_DIRS of each script.
EXCLUDE_DIRS(s) ==
    IF s = "archive" THEN {"Exports", "Proxies", "Proxy"} ELSE {"Exports", "Proxies"}

\* EXCLUDE_FILE_PATTERNS (the same list in both scripts).
EXCLUDE_FILE_PATTERNS == {"_proxy"}

\* argparse defaults of --video-exts and --raw-exts.
DefaultVideoExts == {".mxf", ".mp4", ".mov", ".crm", ".avi"}
DefaultRawExts == {".arw", ".cr2", ".cr3", ".nef", ".dng", ".raf", ".orf", ".rw2", ".sr2"}

VARIABLES
    script,        \* which of the two scripts is run
    env,           \* the installation: required file that is missing, probing tool
    connect,       \* init_resolve's connection loop: attempts made, value of `resolve`
    tree,          \* the source tree: the set of its files (read-only)
    video_exts,    \* args.video_exts
    raw_exts,      \* args.raw_exts
    run,           \* number of the current run, 1..MaxRuns
    pc,            \* position of the run
    non_media,     \* non_media_all
    media,         \* media_all
    i,             \* index of the loop in progress (asset loop, then media loop)
    archive,       \* files of the archive tree: archive path -> content
    archive_dirs,  \* directories of the archive tree (paths relative to archive_root)
    asset_log,     \* per processed asset: the branch the copy loop took
    calls,         \* media entries transcode_with_resolve was invoked for, in order
    last,          \* what the most recent returned (or raised) call of this run did
    cur,           \* the call in progress while Resolve renders
    rendered,      \* entries StartRendering was invoked for in this run
    failed_log,    \* entries the caller printed "Failed to transcode" for
    exit_status,   \* process exit status of the run (-1 while running)
    resolve_bundle, \* what init_resolve() returned: "unset", "bundle" or "None"
    archive0,      \* the archive files when the current run started
    dirs0,         \* the archive directories when the current run started
    prev,          \* how the previous run ended
    deleted        \* the output deleted by hand between the runs, if any

vars == << script, env, connect, tree, video_exts, raw_exts, run, pc, non_media, media, i, archive,
           archive_dirs, asset_log, calls, last, cur, rendered, failed_log,
           exit_status, resolve_bundle, archive0, dirs0, prev, deleted >>

\* ----------------------------------------------------------------- helpers
Range(s) == {s[k] : k \in 1..Len(s)}

RECURSIVE Concat(_)
Concat(ss) == IF ss = << >> THEN << >> ELSE Head(ss) \o Concat(Tail(ss))

\* The files of a set, as a list in directory-listing order.
RECURSIVE ListFrom(_, _)
ListFrom(S, k) ==
    IF k > Len(Universe) THEN << >>
    ELSE (IF Universe[k] \in S THEN << Universe[k] >> ELSE << >>) \o ListFrom(S, k + 1)

Listing(S) == ListFrom(S, 1)

IsPrefix(p, d) == Len(p) <= Len(d) /\ SubSeq(d, 1, Len(p)) = p

\* Prefixes of a directory path, the path itself and the root included.
Prefixes(d) == {SubSeq(d, 1, k) : k \in 0..Len(d)}

\* ------------------------------------------------------------ gather_files
\* os.walk's `files` of directory d.
FilesOf(t, d) == {f \in t : f.dir = d}

\* os.walk's `dirs` of directory d, in listing order.
DirsOf(t, d) ==
    SelectSeq(DirNames, LAMBDA n : \E f \in t : IsPrefix(d \o << n >>, f.dir))

\* Mutant of Prune: `dirs = [...]` rebinds the name, os.walk prunes nothing.
Prune_None(s, dirs) == dirs

\* dirs[:] = [d for d in dirs if d not in EXCLUDE_DIRS]
Prune(s, dirs) == SelectSeq(dirs, LAMBDA n : n \notin EXCLUDE_DIRS(s))

\* for root, dirs, files in os.walk(src): the files visited, top-down.
RECURSIVE Walk(_, _, _)
Walk(s, t, d) ==
    LET kept == Prune(s, DirsOf(t, d))
    IN  Listing(FilesOf(t, d))
        \o Concat([k \in 1..Len(kept) |-> Walk(s, t, d \o << kept[k] >>)])

\* vset / skipset / rset = {e.lower() for e in ...}
LowerSet(exts) == {Lower(e) : e \in exts}

\* The file is dropped by the loop body (`continue`).
Skipped(s, f, vexts, rexts) ==
    IF s = "archive"
    THEN Lower(f.ext) \in LowerSet(rexts)
    ELSE \E pat \in EXCLUDE_FILE_PATTERNS : Contains(pat, Lower(f.stem) \o Lower(f.ext))

\* Mutant of IsMedia: raw_exts is not looked at, in either script.
IsMedia_NoRaw(s, f, vexts, rexts) == Lower(f.ext) \in LowerSet(vexts)

\* The file goes to `media` (else to `non_media`).
IsMedia(s, f, vexts, rexts) ==
    IF s = "archive"
    THEN Lower(f.ext) \in LowerSet(vexts)
    ELSE Lower(f.ext) \in LowerSet(vexts) \/ Lower(f.ext) \in LowerSet(rexts)

\* Mutant of gather_files: the `else` is missing, a media file is appended to
\* both lists.
gather_files_NoElse(s, t, vexts, rexts) ==
    LET seen == SelectSeq(Walk(s, t, << >>), LAMBDA f : ~Skipped(s, f, vexts, rexts))
    IN  [non_media |-> seen,
         media     |-> SelectSeq(seen, LAMBDA f : IsMedia(s, f, vexts, rexts))]

\* gather_files(src, video_exts, raw_exts) -> (non_media, media)
gather_files(s, t, vexts, rexts) ==
    LET seen == SelectSeq(Walk(s, t, << >>), LAMBDA f : ~Skipped(s, f, vexts, rexts))
    IN  [non_media |-> SelectSeq(seen, LAMBDA f : ~IsMedia(s, f, vexts, rexts)),
         media     |-> SelectSeq(seen, LAMBDA f : IsMedia(s, f, vexts, rexts))]

\* ------------------------------------------------------------ archive tree
\* A path of the archive tree, relative to archive_root.
APath(d, n) == [dir |-> d, name |-> n]

NoPath == APath(<< >>, "")

\* Content of an archive path.  data: "absent" (no such file), "copy" (the bytes
\* of the source asset), "partial" (a copy cut short), "video" (a complete
\* render), "video_head" (a render cut short whose first frames decode),
\* "garbage" (undecodable bytes), "empty" (zero length).
Content(sz, dt) == [size |-> sz, data |-> dt]

NoFile == Content(0, "absent")
GoodVideo == Content(2, "video")
BadVideo == Content(2, "garbage")
HeadVideo == Content(1, "video_head")
EmptyFile == Content(0, "empty")

\* Path.exists()
Exists(c) == c.data # "absent"

\* outp = archive_root / rel
AssetDest(f) == APath(f.dir, f.stem \o f.ext)

\* has_alpha_channel(clip_path): 'a' in pix_fmt
has_alpha_channel(f) == Contains("a", f.pix_fmt)

\* out_file = out_folder / f"{base}.mp4"  (archive script: .mov for alpha sources)
OutFile(s, f) ==
    IF s = "archive" /\ has_alpha_channel(f)
    THEN APath(f.dir, f.stem \o ".mov")
    ELSE APath(f.dir, f.stem \o ".mp4")

ArchivePaths ==
    {AssetDest(f) : f \in UniverseSet}
    \cup {OutFile(s, f) : s \in Scripts, f \in UniverseSet}

\* The decode probe: open the container and decode one frame (PyAV), or let
\* ffmpeg read the start of the file; nothing decodes from zero bytes.
DecodeProbe(c) == c.size > 0 /\ c.data \in {"video", "video_head"}

\* is_readable(path)
is_readable(s, c) ==
    IF s = "archive"
    THEN (IF ~Exists(c) \/ c.size = 0 THEN FALSE ELSE DecodeProbe(c))
    ELSE (IF ~Exists(c) THEN FALSE ELSE DecodeProbe(c))

\* media_stems_by_dir.get(d, set())
media_stems_by_dir(ms, d) == {Lower(m.stem) : m \in {x \in Range(ms) : x.dir = d}}

\* Mutant of IsSidecar: the map is looked up with the file instead of its
\* parent directory, the set is always empty.
IsSidecar_WrongKey(ms, f) == Lower(f.stem) \in media_stems_by_dir(ms, f.dir \o << f.stem >>)

\* Mutant of IsSidecar: the stems of every directory are looked up.
IsSidecar_Global(ms, f) == Lower(f.stem) \in {Lower(m.stem) : m \in Range(ms)}

\* stem in media_stems_by_dir.get(f.parent, set())
IsSidecar(ms, f) == Lower(f.stem) \in media_stems_by_dir(ms, f.dir)

\* Mutant of AlreadyCopied: the sizes are compared with > instead of ==.
AlreadyCopied_Greater(c, f) == Exists(c) /\ c.size > f.size

\* outp.exists() and outp.stat().st_size == f.stat().st_size
AlreadyCopied(c, f) == Exists(c) /\ c.size = f.size

\* Mutant of Mkdir: the directory is not created.
Mkdir_Noop(ds, d) == ds

\* mkdir(parents=True, exist_ok=True)
Mkdir(ds, d) == ds \cup Prefixes(d)

\* --------------------------------------------------- transcode_with_resolve
\* Mutant of SkipExisting: the readability test is inverted.
SkipExisting_Inverted(s, c) == Exists(c) /\ ~is_readable(s, c)

\* 1) Skip if already rendered correctly: out_file.exists() and is_readable(out_file)
SkipExisting(s, c) == Exists(c) /\ is_readable(s, c)

\* try: out_file.unlink() -- the number of times the call tries the deletion.
UnlinkAttempts == 1

\* Mutant of Unlinked: the file is still there after the unlink.
Unlinked_Noop(c) == c

\* out_file.unlink() that succeeds: the path holds no file afterwards.
Unlinked(c) == NoFile

\* Mutant of PostRender: the job status is trusted, the output is not probed.
PostRender_StatusOnly(s, status, c) == status = "Complete"

\* What the call returns once IsRenderingInProgress() is false: the archive
\* script first tests the job status, both then run is_readable on out_file.
PostRender(s, status, c) ==
    IF s = "archive" /\ status # "Complete" THEN FALSE ELSE is_readable(s, c)

\* The print that goes with a False after the render.
PostWhy(s, status) == IF s = "archive" /\ status # "Complete" THEN "render" ELSE "integrity"

\* Mutant of AfterInit: the None is not tested, the run goes on.
AfterInit_Continue(ok) == "transcode"

\* resolve_bundle = init_resolve(); if not resolve_bundle: sys.exit(1)
AfterInit(ok) == IF ok THEN "transcode" ELSE "exit1"

\* ---------------------------------------------------------------- timecode
\* get_timecode_from_clip(clip): the "Start TC" property, or None ("none").
SourceTCs == {"none", "01:00:00;00"}

\* get_timecode_from_mp4(out_file): the timecode tag ffprobe prints, or None
\* ("none") when there is no tag or ffprobe fails.
Mp4TCs == {"none", "01:00:00:00", "02:00:00:00"}

\* Mutant of source_tc_normalized: the source timecode is compared as it is.
source_tc_raw(tc) == tc

\* raw_source_tc.replace(';', ':') on the timecodes that occur in the model.
source_tc_normalized(tc) == IF tc = "01:00:00;00" THEN "01:00:00:00" ELSE tc

\* The post-render timecode verification was not reached.
NoTC == [src |-> "none", mp4 |-> "none", log |-> "none"]

\* The block `if raw_source_tc:` after "Integrity OK": which line it prints.
TimecodeCheck(src, mp4) ==
    IF src = "none" THEN NoTC
    ELSE [src |-> src, mp4 |-> mp4,
          log |-> IF mp4 # "none" /\ mp4 = source_tc_normalized(src) THEN "match"
                  ELSE IF mp4 # "none" THEN "mismatch"
                  ELSE "unreadable"]

\* ------------------------------------------------------------ installation
\* The files init_resolve and transcode_with_resolve read besides the media:
\* PRESET_XML_PATH, DRP_PATH (needed when the project is not in Resolve's
\* project list) and the timeline template DRT_TEMPLATE_MONO/STEREO of the
\* davinci script.  "none": all are in place.
RequiredFiles == {"preset", "drp", "template"}

\* What is_readable can probe with: PyAV (HAVE_PYAV), else the ffmpeg
\* executable; "none": PyAV is not installed and there is no ffmpeg to run.
ProbeTools == {"pyav", "ffmpeg", "none"}

Env(missing, probe) == [missing |-> missing, probe |-> probe]

\* Everything installed.
DefaultEnv == Env("none", "pyav")

\* is_readable gets past its early returns and runs the probe.
ProbeRuns(s, c) == IF s = "archive" THEN Exists(c) /\ c.size > 0 ELSE Exists(c)

\* is_readable(path) raises: subprocess.run cannot start ffmpeg
\* (FileNotFoundError), outside any try.
ProbeRaises(s, c, probe) == probe = "none" /\ ProbeRuns(s, c)

\* ------------------------------------------------------------- connection
\* for _ in range(30): resolve = dvr.scriptapp("Resolve")
ConnectAttempts == 30

\* Before the connection loop: resolve = None, no attempt made.
NotConnected == [attempts |-> 0, resolve |-> "None"]

\* What a finished (returned or raised) call did.  before: the content of
\* out_file when the call started; unlinked: the call deleted out_file;
\* rendered: the call invoked StartRendering; status: the JobStatus; made: the
\* content of out_file when the call ended; ret: "True", "False" or "raise";
\* why: the line the call printed last.
Result(f, before, unl, rnd, status, made, ret, why) ==
    [entry |-> f, before |-> before, unlinked |-> unl, rendered |-> rnd, status |-> status,
     made |-> made, ret |-> ret, why |-> why, tc |-> NoTC]

NoCall == [entry |-> Universe[1], before |-> NoFile, unlinked |-> FALSE]

NoResult == Result(Universe[1], NoFile, FALSE, FALSE, "none", NoFile, "none", "none")

\* State of out_file as step 1 sees it.
PreState(s, c) == IF SkipExisting(s, c) THEN "ok" ELSE IF Exists(c) THEN "bad" ELSE "absent"

Running == {"start", "copy", "transcode", "rendering"}
Terminal == {"done", "exit1", "crashed", "killed"}

\* -------------------------------------------------------------------- Init
Init ==
    /\ script \in Scripts
    /\ env = DefaultEnv
    /\ connect = NotConnected
    /\ tree \in {t \in SUBSET RunFiles : Cardinality(t) <= MaxFiles}
    /\ video_exts = DefaultVideoExts
    /\ raw_exts = DefaultRawExts
    /\ run = 1
    /\ pc = "start"
    /\ non_media = << >>
    /\ media = << >>
    /\ i = 1
    /\ archive = [p \in ArchivePaths |-> NoFile]
    /\ archive_dirs = {}
    /\ asset_log = << >>
    /\ calls = << >>
    /\ last = NoResult
    /\ cur = NoCall
    /\ rendered = {}
    /\ failed_log = {}
    /\ exit_status = -1
    /\ resolve_bundle = "unset"
    /\ archive0 = [p \in ArchivePaths |-> NoFile]
    /\ dirs0 = {}
    /\ prev = "none"
    /\ deleted = NoPath

\* ----------------------------------------------------------------- __main__
\* Steps 2-4: gather_files, then archive_root.mkdir(parents=True, exist_ok=True).
Gather ==
    /\ pc = "start"
    /\ LET g == gather_files(script, tree, video_exts, raw_exts)
       IN  /\ non_media' = g.non_media
           /\ media' = g.media
    /\ archive_dirs' = Mkdir(archive_dirs, << >>)
    /\ pc' = "copy"
    /\ i' = 1
    /\ UNCHANGED << script, env, connect, tree, video_exts, raw_exts, run, archive, asset_log, calls,
                    last, cur, rendered, failed_log, exit_status, resolve_bundle, archive0, dirs0, prev,
                    deleted >>

\* Step 5, one iteration of `for f in non_media_all`.  copy2 (or mkdir, stat)
\* may raise: nothing catches it and the run ends with a traceback, status 1.
CopyStep ==
    /\ pc = "copy"
    /\ i <= Len(non_media)
    /\ LET f == non_media[i]
           outp == AssetDest(f)
       IN  IF IsSidecar(media, f)
           THEN /\ asset_log' = Append(asset_log, [branch |-> "sidecar", ok |-> TRUE])
                /\ i' = i + 1
                /\ UNCHANGED << archive, archive_dirs, pc, exit_status, resolve_bundle >>
           ELSE IF AlreadyCopied(archive[outp], f)
           THEN /\ asset_log' = Append(asset_log, [branch |-> "existing", ok |-> TRUE])
                /\ archive_dirs' = Mkdir(archive_dirs, f.dir)
                /\ i' = i + 1
                /\ UNCHANGED << archive, pc, exit_status, resolve_bundle >>
           ELSE \/ /\ archive' = [archive EXCEPT ![outp] = Content(f.size, "copy")]
                   /\ archive_dirs' = Mkdir(archive_dirs, f.dir)
                   /\ asset_log' = Append(asset_log, [branch |-> "copy", ok |-> TRUE])
                   /\ i' = i + 1
                   /\ UNCHANGED << pc, exit_status, resolve_bundle >>
                \/ /\ asset_log' = Append(asset_log, [branch |-> "copy", ok |-> FALSE])
                   /\ archive_dirs' = Mkdir(archive_dirs, f.dir)
                   /\ pc' = "crashed"
                   /\ exit_status' = 1
                   /\ UNCHANGED resolve_bundle
                   /\ UNCHANGED << archive, i >>
    /\ UNCHANGED << script, env, connect, tree, video_exts, raw_exts, run, non_media, media, calls,
                    last, cur, rendered, failed_log, archive0, dirs0, prev, deleted >>

\* Mutant of InitResolve: init_resolve is called without waiting for the end
\* of the asset-copy loop.
InitResolve_Early ==
    /\ pc = "copy"
    /\ \E ok \in BOOLEAN :
          /\ env.missing \in {"preset", "drp"} => ~ok
          /\ pc' = AfterInit(ok)
          /\ exit_status' = IF AfterInit(ok) = "exit1" THEN 1 ELSE exit_status
          /\ resolve_bundle' = IF ok THEN "bundle" ELSE "None"
    /\ i' = 1
    /\ UNCHANGED << script, env, connect, tree, video_exts, raw_exts, run, non_media, media, archive,
                    archive_dirs, asset_log, calls, last, cur, rendered, failed_log,
                    archive0, dirs0, prev, deleted >>

\* Step 6: init_resolve() returns the bundle or None (import of the scripting
\* module failed, Resolve not reachable, project or preset file missing).
InitResolve ==
    /\ pc = "copy"
    /\ i > Len(non_media)
    /\ \E ok \in BOOLEAN :
          /\ env.missing \in {"preset", "drp"} => ~ok
          /\ pc' = AfterInit(ok)
          /\ exit_status' = IF AfterInit(ok) = "exit1" THEN 1 ELSE exit_status
          /\ resolve_bundle' = IF ok THEN "bundle" ELSE "None"
    /\ i' = 1
    /\ UNCHANGED << script, env, connect, tree, video_exts, raw_exts, run, non_media, media, archive,
                    archive_dirs, asset_log, calls, last, cur, rendered, failed_log,
                    archive0, dirs0, prev, deleted >>

\* The caller's loop body once the call has returned r.ret:
\*   if not transcode_with_resolve(...): print("Failed to transcode: ...")
Return(r) ==
    /\ last' = r
    /\ failed_log' = IF r.ret = "False" THEN failed_log \cup {r.entry} ELSE failed_log
    /\ i' = i + 1
    /\ pc' = "transcode"
    /\ cur' = NoCall
    /\ UNCHANGED << rendered, exit_status, resolve_bundle >>

\* An exception leaves transcode_with_resolve: nothing catches it, the run ends
\* with a traceback and status 1.
Raise(r) ==
    /\ last' = r
    /\ pc' = "crashed"
    /\ exit_status' = 1
    /\ UNCHANGED resolve_bundle
    /\ cur' = NoCall
    /\ UNCHANGED << rendered, failed_log, i >>

\* The steps between the cleanup of the project and StartRendering that can make
\* the call return False: AddItemListToMediaPool ("import"), the timeline being
\* created/imported, appended to and verified ("timeline"), AddRenderJob ("queue").
PreRenderSteps == {"import", "timeline", "queue", "render"}

\* The steps a call can end at: without its timeline template the davinci
\* script gets no further than mp.ImportTimelineFromFile ("Failed to import
\* template"); the archive script builds its timeline with CreateEmptyTimeline.
TemplateSteps(s, missing) ==
    IF s = "davinci" /\ missing = "template" THEN {"import", "timeline"} ELSE PreRenderSteps

\* Step 7, one iteration of `for clip_path in media_all`, from the call of
\* transcode_with_resolve up to its return, or up to StartRendering.
TranscodeBegin ==
    /\ pc = "transcode"
    /\ i <= Len(media)
    /\ calls' = Append(calls, media[i])
    /\ LET f == media[i]
           out == OutFile(script, f)
           c == archive[out]
           pre == PreState(script, c)
       IN  IF script = "archive" /\ has_alpha_channel(f)
           THEN \* preset_to_use = PRESET_NAME_ALPHA: the name is defined nowhere
                /\ Raise(Result(f, NoFile, FALSE, FALSE, "none", NoFile, "raise", "NameError"))
                /\ UNCHANGED << archive, archive_dirs >>
           ELSE /\ archive_dirs' = Mkdir(archive_dirs, f.dir)
                /\ IF ProbeRaises(script, c, env.probe)
                   THEN \* is_readable(out_file): subprocess.run finds no ffmpeg
                        /\ Raise(Result(f, c, FALSE, FALSE, "none", c, "raise", "FileNotFoundError"))
                        /\ UNCHANGED archive
                   ELSE IF pre = "ok"
                   THEN /\ Return(Result(f, c, FALSE, FALSE, "none", c, "True", "skip"))
                        /\ UNCHANGED archive
                   ELSE \E locked \in BOOLEAN, step \in TemplateSteps(script, env.missing) :
                          IF pre = "bad" /\ locked
                          THEN \* out_file.unlink() raises OSError
                               /\ UNCHANGED archive
                               /\ IF script = "archive"
                                  THEN Return(Result(f, c, FALSE, FALSE, "none", c, "False", "unlink"))
                                  ELSE Raise(Result(f, c, FALSE, FALSE, "none", c, "raise", "OSError"))
                          ELSE /\ archive' = IF pre = "bad"
                                             THEN [archive EXCEPT ![out] = Unlinked(c)]
                                             ELSE archive
                               /\ IF step # "render"
                                  THEN Return(Result(f, c, pre = "bad", FALSE, "none", archive'[out], "False", step))
                                  ELSE /\ pc' = "rendering"
                                       /\ cur' = [entry |-> f, before |-> c, unlinked |-> (pre = "bad")]
                                       /\ rendered' = rendered \cup {f}
                                       /\ UNCHANGED << last, failed_log, i, exit_status, resolve_bundle >>
    /\ UNCHANGED << script, env, connect, tree, video_exts, raw_exts, run, non_media, media, asset_log,
                    archive0, dirs0, prev, deleted >>

\* After the render the call gets as far as is_readable(out_file): the archive
\* script returns False before it when the job status is not 'Complete'.
ProbeReached(s, status) == s = "davinci" \/ status = "Complete"

\* What Resolve leaves at out_file when the render job stops.
RenderOutputs == {GoodVideo, BadVideo, NoFile}

\* IsRenderingInProgress() turns false: the job has a status, the engine has
\* written (or not) the output; the call runs its post-render checks and returns.
RenderFinish ==
    /\ pc = "rendering"
    /\ \E status \in {"Complete", "Failed"}, made \in RenderOutputs,
          src \in SourceTCs, mp4 \in Mp4TCs :
          LET out == OutFile(script, cur.entry)
              ok == PostRender(script, status, made)
              r == Result(cur.entry, cur.before, cur.unlinked, TRUE, status, made,
                          IF ok THEN "True" ELSE "False",
                          IF ok THEN "ok" ELSE PostWhy(script, status))
          IN  /\ archive' = [archive EXCEPT ![out] = made]
              /\ IF ProbeReached(script, status) /\ ProbeRaises(script, made, env.probe)
                 THEN Raise([r EXCEPT !.ret = "raise", !.why = "FileNotFoundError"])
                 ELSE Return(IF script = "archive" /\ ok
                             THEN [r EXCEPT !.tc = TimecodeCheck(src, mp4)]
                             ELSE r)
    /\ UNCHANGED << script, env, connect, tree, video_exts, raw_exts, run, non_media, media, archive_dirs,
                    asset_log, calls, archive0, dirs0, prev, deleted >>

\* The loop over media_all is over: "Archive & transcode complete!" and, once
\* the exit prompt of the archive script is answered, status 0.
Finish ==
    /\ pc = "transcode"
    /\ i > Len(media)
    /\ pc' = "done"
    /\ exit_status' = 0
    /\ UNCHANGED resolve_bundle
    /\ UNCHANGED << script, env, connect, tree, video_exts, raw_exts, run, non_media, media, i, archive,
                    archive_dirs, asset_log, calls, last, cur, rendered, failed_log,
                    archive0, dirs0, prev, deleted >>

\* ------------------------------------------------------------- environment
\* A terminated process leaves nothing but the archive tree: its lists, loop
\* index and call state are gone with it.
\* The process is terminated from outside between two file-system writes.
KillIdle ==
    /\ pc \in {"start", "copy", "transcode"}
    /\ pc' = "killed"
    /\ resolve_bundle' = "unset"
    /\ non_media' = << >>
    /\ media' = << >>
    /\ i' = 1
    /\ asset_log' = << >>
    /\ calls' = << >>
    /\ last' = NoResult
    /\ cur' = NoCall
    /\ rendered' = {}
    /\ failed_log' = {}
    /\ UNCHANGED << script, env, connect, tree, video_exts, raw_exts, run, archive, archive_dirs,
                    exit_status, archive0, dirs0, prev, deleted >>

\* The process is terminated inside shutil.copy2: the destination holds fewer
\* bytes than the source.
KillDuringCopy ==
    /\ pc = "copy"
    /\ i <= Len(non_media)
    /\ LET f == non_media[i]
           outp == AssetDest(f)
       IN  /\ ~IsSidecar(media, f)
           /\ ~AlreadyCopied(archive[outp], f)
           /\ \E n \in 0..(f.size - 1) :
                 archive' = [archive EXCEPT ![outp] = Content(n, "partial")]
           /\ archive_dirs' = Mkdir(archive_dirs, f.dir)
    /\ pc' = "killed"
    /\ resolve_bundle' = "unset"
    /\ non_media' = << >>
    /\ media' = << >>
    /\ i' = 1
    /\ asset_log' = << >>
    /\ calls' = << >>
    /\ last' = NoResult
    /\ cur' = NoCall
    /\ rendered' = {}
    /\ failed_log' = {}
    /\ UNCHANGED << script, env, connect, tree, video_exts, raw_exts, run, exit_status, archive0,
                    dirs0, prev, deleted >>

\* What a render cut short leaves at out_file: nothing decodable yet, or a file
\* whose first frames decode.
PartialOutputs == {EmptyFile, HeadVideo}

\* The process (and the render) is terminated while Resolve renders.
KillDuringRender ==
    /\ pc = "rendering"
    /\ \E part \in PartialOutputs :
          archive' = [archive EXCEPT ![OutFile(script, cur.entry)] = part]
    /\ pc' = "killed"
    /\ resolve_bundle' = "unset"
    /\ non_media' = << >>
    /\ media' = << >>
    /\ i' = 1
    /\ asset_log' = << >>
    /\ calls' = << >>
    /\ last' = NoResult
    /\ cur' = NoCall
    /\ rendered' = {}
    /\ failed_log' = {}
    /\ UNCHANGED << script, env, connect, tree, video_exts, raw_exts, run, archive_dirs, exit_status,
                    archive0, dirs0, prev, deleted >>

\* The script is started again on the same source and destination; d is the
\* transcode output removed by hand after a completed run (NoPath: none).
Restart(d) ==
    /\ pc \in Terminal
    /\ run < MaxRuns
    /\ run' = run + 1
    /\ archive' = IF d = NoPath THEN archive ELSE [archive EXCEPT ![d] = NoFile]
    /\ archive0' = archive'
    /\ dirs0' = archive_dirs
    /\ deleted' = d
    /\ prev' = pc
    /\ pc' = "start"
    /\ non_media' = << >>
    /\ media' = << >>
    /\ i' = 1
    /\ asset_log' = << >>
    /\ calls' = << >>
    /\ last' = NoResult
    /\ cur' = NoCall
    /\ rendered' = {}
    /\ failed_log' = {}
    /\ exit_status' = -1
    /\ resolve_bundle' = "unset"
    /\ UNCHANGED << script, env, connect, tree, video_exts, raw_exts, archive_dirs >>

NextRun == Restart(NoPath)

\* The transcode outputs of the source tree's media entries.
MediaOutputs ==
    {OutFile(script, m) : m \in Range(gather_files(script, tree, video_exts, raw_exts).media)}

DeleteOutputAndRerun ==
    /\ pc = "done"
    /\ run < MaxRuns
    /\ \E d \in MediaOutputs : Exists(archive[d]) /\ Restart(d)

Next ==
    \/ Gather
    \/ CopyStep
    \/ InitResolve
    \/ TranscodeBegin
    \/ RenderFinish
    \/ Finish
    \/ KillIdle
    \/ KillDuringCopy
    \/ KillDuringRender
    \/ NextRun
    \/ DeleteOutputAndRerun

Spec == Init /\ [][Next]_vars

\* ------------------------------------------------- one run over any tree
\* Values of --raw-exts: the default list, or the option given with no value.
RawExtsChoices == {DefaultRawExts, {}}

\* A first run over any tree of at most MaxTree candidate files, the files
\* that only gather_files treats specially included.
InitOnce ==
    /\ script \in Scripts
    /\ env = DefaultEnv
    /\ connect = NotConnected
    /\ tree \in {t \in SUBSET UniverseSet : Cardinality(t) <= MaxTree}
    /\ video_exts = DefaultVideoExts
    /\ raw_exts \in RawExtsChoices
    /\ run = 1
    /\ pc = "start"
    /\ non_media = << >>
    /\ media = << >>
    /\ i = 1
    /\ archive = [p \in ArchivePaths |-> NoFile]
    /\ archive_dirs = {}
    /\ asset_log = << >>
    /\ calls = << >>
    /\ last = NoResult
    /\ cur = NoCall
    /\ rendered = {}
    /\ failed_log = {}
    /\ exit_status = -1
    /\ resolve_bundle = "unset"
    /\ archive0 = [p \in ArchivePaths |-> NoFile]
    /\ dirs0 = {}
    /\ prev = "none"
    /\ deleted = NoPath

\* The steps of one run that nothing interrupts.
NextOnce ==
    \/ Gather
    \/ CopyStep
    \/ InitResolve
    \/ TranscodeBegin
    \/ RenderFinish
    \/ Finish

SpecOnce == InitOnce /\ [][NextOnce]_vars

\* ------------------------------------------- one run, any extension lists
\* Values of --video-exts: the default list, or one extension.
VideoExtsChoices == {DefaultVideoExts, {".mov"}}

\* Values of --raw-exts: the default list, none, or an extension that is a
\* video extension too, given in upper case.
RawExtsAll == RawExtsChoices \cup {{".MOV"}}

\* A first run over any tree of at most MaxTree candidate files, with any of
\* the extension lists.
InitExts ==
    /\ script \in Scripts
    /\ env = DefaultEnv
    /\ connect = NotConnected
    /\ tree \in {t \in SUBSET UniverseSet : Cardinality(t) <= MaxTree}
    /\ video_exts \in VideoExtsChoices
    /\ raw_exts \in RawExtsAll
    /\ run = 1
    /\ pc = "start"
    /\ non_media = << >>
    /\ media = << >>
    /\ i = 1
    /\ archive = [p \in ArchivePaths |-> NoFile]
    /\ archive_dirs = {}
    /\ asset_log = << >>
    /\ calls = << >>
    /\ last = NoResult
    /\ cur = NoCall
    /\ rendered = {}
    /\ failed_log = {}
    /\ exit_status = -1
    /\ resolve_bundle = "unset"
    /\ archive0 = [p \in ArchivePaths |-> NoFile]
    /\ dirs0 = {}
    /\ prev = "none"
    /\ deleted = NoPath

SpecExts == InitExts /\ [][NextOnce]_vars

\* ---------------------------------------------- one run, any installation
\* Installations: at most one required file is missing; PyAV, only ffmpeg, or
\* neither is there to probe with.
Envs == {Env(m, p) : m \in RequiredFiles \cup {"none"}, p \in ProbeTools}

\* What an earlier, interrupted run may have left at the output paths.
Leftovers == {NoFile, EmptyFile, GoodVideo}

\* A run on any installation, into an archive that is empty or holds what an
\* earlier run left at the output paths.
InitEnv ==
    /\ script \in Scripts
    /\ env \in Envs
    /\ connect = NotConnected
    /\ tree \in {t \in SUBSET RunFiles : Cardinality(t) <= MaxFiles}
    /\ video_exts = DefaultVideoExts
    /\ raw_exts = DefaultRawExts
    /\ run = 1
    /\ pc = "start"
    /\ non_media = << >>
    /\ media = << >>
    /\ i = 1
    /\ \E left \in Leftovers :
          archive = [p \in ArchivePaths |->
                        IF p \in {OutFile(script, f) : f \in tree} THEN left ELSE NoFile]
    /\ archive_dirs = {}
    /\ asset_log = << >>
    /\ calls = << >>
    /\ last = NoResult
    /\ cur = NoCall
    /\ rendered = {}
    /\ failed_log = {}
    /\ exit_status = -1
    /\ resolve_bundle = "unset"
    /\ archive0 = archive
    /\ dirs0 = {}
    /\ prev = "none"
    /\ deleted = NoPath

SpecEnv == InitEnv /\ [][NextOnce]_vars

\* ------------------------------------------- one run, connection loop shown
\* Mutant of MoreAttempts: the loop runs once more than range(30) allows.
MoreAttempts_OffByOne(n) == n <= ConnectAttempts

\* `for _ in range(30)` has an iteration left after n of them.
MoreAttempts(n) == n < ConnectAttempts

\* One iteration of the connection loop of init_resolve:
\*   resolve = dvr.scriptapp("Resolve"); if resolve: break
ConnectTry ==
    /\ pc = "copy"
    /\ i > Len(non_media)
    /\ connect.resolve = "None"
    /\ MoreAttempts(connect.attempts)
    /\ \E r \in {"None", "app"} :
          connect' = [attempts |-> connect.attempts + 1, resolve |-> r]
    /\ UNCHANGED << script, env, tree, video_exts, raw_exts, run, pc, non_media, media, i, archive,
                    archive_dirs, asset_log, calls, last, cur, rendered, failed_log, exit_status,
                    resolve_bundle, archive0, dirs0, prev, deleted >>

\* init_resolve returns: before the loop (the import of DaVinciResolveScript
\* failed), or once the loop has ended by `break` or by exhaustion; with
\* `resolve` still None it returns None.
InitResolveLive ==
    /\ \/ connect.attempts = 0
       \/ connect.resolve # "None"
       \/ ~MoreAttempts(connect.attempts)
    /\ InitResolve
    /\ connect.resolve = "None" => resolve_bundle' = "None"

\* The loop over media_all is over, "Archive & transcode complete!" is printed.
\* The archive script then waits: os.system("pause") / input("Press Enter to
\* exit"); the davinci script ends here.
Complete ==
    /\ pc = "transcode"
    /\ i > Len(media)
    /\ pc' = IF script = "archive" THEN "prompt" ELSE "done"
    /\ exit_status' = IF script = "archive" THEN exit_status ELSE 0
    /\ UNCHANGED << script, env, connect, tree, video_exts, raw_exts, run, non_media, media, i, archive,
                    archive_dirs, asset_log, calls, last, cur, rendered, failed_log, resolve_bundle,
                    archive0, dirs0, prev, deleted >>

\* The user answers the exit prompt: the process ends with status 0.
ExitPrompt ==
    /\ pc = "prompt"
    /\ pc' = "done"
    /\ exit_status' = 0
    /\ UNCHANGED << script, env, connect, tree, video_exts, raw_exts, run, non_media, media, i, archive,
                    archive_dirs, asset_log, calls, last, cur, rendered, failed_log, resolve_bundle,
                    archive0, dirs0, prev, deleted >>

NextLive ==
    \/ Gather
    \/ CopyStep
    \/ ConnectTry
    \/ InitResolveLive
    \/ TranscodeBegin
    \/ RenderFinish
    \/ Complete
    \/ ExitPrompt

\* The interpreter keeps executing the script, and every started render
\* eventually reports IsRenderingInProgress() false.  Nothing makes the user
\* answer the exit prompt.
SpecLive ==
    /\ Init
    /\ [][NextLive]_vars
    /\ WF_vars(Gather \/ CopyStep \/ ConnectTry \/ InitResolveLive \/ TranscodeBegin \/ Complete)
    /\ WF_vars(RenderFinish)

\* ================================================================== claims
\* The lists gather_files returns for the source tree.
Gathered == gather_files(script, tree, video_exts, raw_exts)

\* Every media entry's output passes is_readable in archive a.
AllOutputsReadable(a) ==
    \A m \in Range(Gathered.media) : is_readable(script, a[OutFile(script, m)])

\* Every asset that is no side-car is in archive a with the source's size.
AllAssetsMirrored(a) ==
    \A f \in Range(Gathered.non_media) :
        IsSidecar(Gathered.media, f) \/ (Exists(a[AssetDest(f)]) /\ a[AssetDest(f)].size = f.size)

\* The run in progress follows a completed run that left every asset copied
\* and every output readable, and nothing was removed in between.
AfterCleanRun ==
    /\ run > 1
    /\ prev = "done"
    /\ deleted = NoPath
    /\ AllOutputsReadable(archive0)
    /\ AllAssetsMirrored(archive0)

\* C1: a run that follows a completed run (every asset copied, every output
\* readable) on the same source and archive copies no asset, starts no render
\* and leaves the files and directories of the archive as they were.
C1_Idempotent ==
    AfterCleanRun =>
        /\ \A k \in 1..Len(asset_log) : asset_log[k].branch # "copy"
        /\ rendered = {}
        /\ pc # "rendering"
        /\ archive = archive0
        /\ archive_dirs = dirs0

\* C1 witness: such a second run has gone through an asset and a media entry
\* and is complete.
C1_Witness ==
    /\ AfterCleanRun
    /\ pc = "done"
    /\ Len(asset_log) > 0
    /\ asset_log[1].branch = "existing"
    /\ Len(calls) > 0
    /\ last.ret = "True"

\* C2: an output that exists and passes is_readable when the call starts is
\* neither unlinked nor re-rendered and the call returns True; the call unlinks
\* or re-renders an existing output only after is_readable returned False on
\* it; and no step of a run changes an archive file that passes is_readable.
C2_CallKeepsValid ==
    /\ is_readable(script, last.before) =>
           last.ret = "True" /\ ~last.unlinked /\ ~last.rendered /\ last.made = last.before
    /\ last.unlinked => Exists(last.before) /\ ~is_readable(script, last.before)
    /\ last.rendered /\ Exists(last.before) => ~is_readable(script, last.before)
    /\ pc = "rendering" => ~is_readable(script, cur.before)
    /\ pc = "rendering" /\ Exists(cur.before) => cur.unlinked

C2_StepKeepsValid ==
    pc \in Running =>
        \A p \in ArchivePaths : is_readable(script, archive[p]) => archive'[p] = archive[p]

C2_ValidNeverTouched == [](C2_CallKeepsValid) /\ [][C2_StepKeepsValid]_vars

\* C2 witness: a call found its output present and readable and returned.
C2_Witness == is_readable(script, last.before) /\ last.ret = "True" /\ pc = "transcode"

\* The run in progress follows a completed run after which one transcode output
\* was removed, every other media output being readable.
AfterOneDeletion ==
    /\ run > 1
    /\ prev = "done"
    /\ deleted # NoPath
    /\ \A m \in Range(Gathered.media) :
           OutFile(script, m) = deleted \/ is_readable(script, archive0[OutFile(script, m)])

\* The media entries whose output is the removed file.
DeletedEntries == {m \in Range(Gathered.media) : OutFile(script, m) = deleted}

\* The first of them in list order.
FirstDeleted ==
    LET ms == Gathered.media
        k == CHOOSE n \in 1..Len(ms) :
                 /\ ms[n] \in DeletedEntries
                 /\ \A j \in 1..(n - 1) : ms[j] \notin DeletedEntries
    IN  ms[k]

\* C3 as stated: when the run after the deletion has ended, the render has been
\* invoked for exactly the media entries whose output was removed.
C3_Claim ==
    AfterOneDeletion /\ pc \in {"done", "exit1", "crashed"} => rendered = DeletedEntries

\* C3 as amended: after the deletion the run starts a render only for an entry
\* whose output is the removed file, changes no other readable archive file,
\* and, when it completes, has rendered the first such entry of the list unless
\* that entry's call failed before StartRendering (and was logged as failed).
C3_Resume ==
    AfterOneDeletion =>
        /\ rendered \subseteq DeletedEntries
        /\ \A p \in ArchivePaths \ {deleted} :
               is_readable(script, archive0[p]) => archive[p] = archive0[p]
        /\ pc = "done" => FirstDeleted \in rendered \cup failed_log

\* C3 witness: the completed second run re-rendered the removed output while
\* another entry's readable output is still in place.
C3_Witness ==
    /\ AfterOneDeletion
    /\ pc = "done"
    /\ rendered # {}
    /\ is_readable(script, archive[deleted])
    /\ \E m \in Range(media) :
           OutFile(script, m) # deleted /\ is_readable(script, archive[OutFile(script, m)])

\* C4: Resolve never renders while a file is at out_file: an existing output
\* that fails is_readable has been unlinked before StartRendering, a call that
\* could not unlink it has not rendered, and after the unlink the path is as
\* for an absent target.
C4_CorruptDeletedFirst ==
    /\ pc = "rendering" =>
           /\ ~Exists(archive[OutFile(script, cur.entry)])
           /\ Exists(cur.before) => cur.unlinked /\ ~is_readable(script, cur.before)
    /\ last.rendered /\ Exists(last.before) => last.unlinked
    /\ last.unlinked /\ ~last.rendered => last.made = NoFile /\ last.ret = "False"
    /\ Exists(last.before) /\ ~is_readable(script, last.before) /\ ~last.unlinked =>
           ~last.rendered /\ last.ret # "True" /\ last.made = last.before

\* C4 witness: a render is in progress in a call that found a zero-length
\* output and deleted it.
C4_Witness ==
    /\ pc = "rendering"
    /\ cur.unlinked
    /\ Exists(cur.before)
    /\ cur.before.size = 0

\* C5 as stated: once init_resolve has succeeded, a run that ends by itself
\* (completion or uncaught exception) has invoked transcode_with_resolve for
\* every entry of the media list, in list order.
C5_Claim == (pc = "done" \/ (pc = "crashed" /\ calls # << >>)) => calls = media

\* C6: a call that returned True has seen its output pass is_readable, and the
\* readable file is at out_file; a call whose render finished with an output
\* that fails is_readable returned False; a False is logged by the caller.
C6_TrueMeansReadable ==
    /\ last.ret = "True" =>
           /\ Exists(last.made)
           /\ is_readable(script, last.made)
           /\ archive[OutFile(script, last.entry)] = last.made
    /\ last.rendered /\ ~is_readable(script, last.made) => last.ret = "False"
    /\ last.ret = "False" => last.entry \in failed_log

\* C6 witness: the job status was Complete, the output fails is_readable, the
\* call returned False.
C6_Witness ==
    /\ last.rendered
    /\ last.status = "Complete"
    /\ ~is_readable(script, last.made)
    /\ last.ret = "False"
    /\ last.entry \in failed_log

\* A directory named in EXCLUDE_DIRS lies between the source root and f.
UnderExcluded(f) == \E k \in 1..Len(f.dir) : f.dir[k] \in EXCLUDE_DIRS(script)

\* C7 as stated: when the run exits with status 1 because init_resolve returned
\* None, no asset has been copied into the archive tree and no media file has
\* been transcoded.
C7_Claim ==
    resolve_bundle = "None" =>
        /\ \A k \in 1..Len(asset_log) : asset_log[k].branch # "copy"
        /\ calls = << >>

\* C7 as amended: a None from init_resolve ends the run with status 1 before
\* transcode_with_resolve is called for any media file, so nothing is rendered
\* and no transcode output is changed; the asset-copy loop has already run to
\* its end by then, so every non-suppressed asset is in the archive tree.
C7_SetupFailure ==
    resolve_bundle = "None" =>
        /\ pc = "exit1"
        /\ exit_status = 1
        /\ calls = << >>
        /\ rendered = {}
        /\ \A m \in Range(media) :
               archive[OutFile(script, m)] = archive0[OutFile(script, m)]
        /\ Len(asset_log) = Len(non_media)
        /\ AllAssetsMirrored(archive)

\* C7 witness: the run has exited with status 1 after copying an asset, with a
\* media file waiting that was never handed to transcode_with_resolve.
C7_Witness ==
    /\ pc = "exit1"
    /\ resolve_bundle = "None"
    /\ \E k \in 1..Len(asset_log) : asset_log[k].branch = "copy" /\ asset_log[k].ok
    /\ Len(media) > 0
    /\ calls = << >>

\* C8 as stated: after a terminated run, a following run that is not
\* interrupted, in which setup succeeds and no copy or render fails, ends with
\* every non-suppressed asset mirrored with the source's size and every media
\* output readable, none of them a partial file the terminated run left.
C8_Claim ==
    (/\ run > 1
     /\ prev = "killed"
     /\ pc \in {"done", "crashed"}
     /\ resolve_bundle = "bundle"
     /\ failed_log = {}
     /\ \A k \in 1..Len(asset_log) : asset_log[k].ok)
    =>
        /\ AllAssetsMirrored(archive)
        /\ \A m \in Range(Gathered.media) :
               /\ is_readable(script, archive[OutFile(script, m)])
               /\ archive[OutFile(script, m)] \notin PartialOutputs

\* C9 as stated: an asset is suppressed exactly when a media file of its own
\* directory has the same base name.
C9_Claim ==
    \A k \in 1..Len(asset_log) :
        LET f == non_media[k]
        IN  asset_log[k].branch = "sidecar" <=>
                \E m \in Range(media) : m.dir = f.dir /\ m.stem = f.stem

\* C9 as amended: an asset is suppressed, and its archive path left alone,
\* exactly when a media file of its own directory has the same base name up to
\* letter case; every other asset is copied or found already present, whatever
\* the media base names of other directories are.
C9_Sidecar ==
    \A k \in 1..Len(asset_log) :
        LET f == non_media[k]
            twin == \E m \in Range(media) : m.dir = f.dir /\ Lower(m.stem) = Lower(f.stem)
        IN  /\ asset_log[k].branch = "sidecar" <=> twin
            /\ twin => archive[AssetDest(f)] = archive0[AssetDest(f)]
            /\ ~twin /\ asset_log[k].ok =>
                   /\ asset_log[k].branch \in {"copy", "existing"}
                   /\ Exists(archive[AssetDest(f)])
                   /\ archive[AssetDest(f)].size = f.size

\* C9 witness: an asset was suppressed whose base name equals a media base name
\* of its directory only up to letter case.
C9_Witness ==
    \E k \in 1..Len(asset_log) :
        LET f == non_media[k]
        IN  /\ asset_log[k].branch = "sidecar"
            /\ \A m \in Range(media) : m.dir = f.dir => m.stem # f.stem
            /\ ~Exists(archive[AssetDest(f)])

\* C10: gather_files returns no file below a directory named in EXCLUDE_DIRS,
\* in either list; such a file is never handed to transcode_with_resolve and
\* nothing is written for it in the archive tree.
C10_ExcludedDirs ==
    /\ \A f \in Range(Gathered.non_media) \cup Range(Gathered.media) : ~UnderExcluded(f)
    /\ \A f \in Range(non_media) \cup Range(media) \cup Range(calls) : ~UnderExcluded(f)
    /\ \A f \in tree :
           UnderExcluded(f) =>
               /\ ~Exists(archive[AssetDest(f)])
               /\ ~Exists(archive[OutFile(script, f)])

\* C10 witness: a run over a tree with a media file two levels below Exports
\* and a media file elsewhere has completed, the latter transcoded.
C10_Witness ==
    /\ pc = "done"
    /\ \E f \in tree : UnderExcluded(f) /\ Len(f.dir) > 1
    /\ Len(media) > 0
    /\ calls = media
    /\ last.ret = "True"

\* Number of times f occurs in the list.
Count(list, f) == Cardinality({k \in 1..Len(list) : list[k] = f})

\* C11: once gather_files has returned, every file of the tree that is neither
\* under an excluded directory nor dropped by the loop body occurs exactly once
\* in non_media and media together, every other file occurs in neither, the
\* lists hold files of the tree only, and no media file is copied by the
\* asset-copy loop.
C11_Partition ==
    pc # "start" =>
        /\ \A f \in tree :
               Count(non_media, f) + Count(media, f) =
                   IF UnderExcluded(f) \/ Skipped(script, f, video_exts, raw_exts) THEN 0 ELSE 1
        /\ Range(non_media) \cup Range(media) \subseteq tree
        /\ Range(non_media) \cap Range(media) = {}
        /\ \A m \in Range(media) : archive[AssetDest(m)].data # "copy"

\* C11 witness: a completed run over a tree with a media file, an asset that
\* was copied and a file that gather_files dropped.
C11_Witness ==
    /\ pc = "done"
    /\ Len(media) = 1
    /\ Len(non_media) = 1
    /\ Cardinality(tree) = 3
    /\ asset_log[1].branch = "copy"
    /\ Exists(archive[AssetDest(non_media[1])])
    /\ last.ret = "True"

\* A pattern of EXCLUDE_FILE_PATTERNS occurs in the lower-cased file name.
MatchesPattern(f) ==
    \E pat \in EXCLUDE_FILE_PATTERNS : Contains(pat, Lower(f.stem) \o Lower(f.ext))

\* C12 as stated: in both scripts a file whose name contains "_proxy", in any
\* letter case, is in neither list, is never handed to transcode_with_resolve
\* and nothing is written for it in the archive tree.
C12_Claim ==
    \A f \in tree :
        MatchesPattern(f) =>
            /\ f \notin Range(non_media) \cup Range(media) \cup Range(calls)
            /\ ~Exists(archive[AssetDest(f)])
            /\ ~Exists(archive[OutFile(script, f)])

\* C13 as stated: a copy that raised leaves the run going, towards the next
\* asset, init_resolve and the transcode loop.
C13_Claim == (\E k \in 1..Len(asset_log) : ~asset_log[k].ok) => pc # "crashed"

\* C14 as stated: while the asset-copy loop runs, every file that was in the
\* archive when the run started still has the content it had.
C14_Claim ==
    pc = "copy" => \A p \in ArchivePaths : Exists(archive0[p]) => archive[p] = archive0[p]

\* One step taken while the asset-copy loop runs keeps every existing archive
\* file in place, and changes the content of none but the destination of the
\* asset in hand, when that asset is not suppressed and the sizes differ.
C14_StepKeeps ==
    pc = "copy" =>
        \A p \in ArchivePaths :
            Exists(archive[p]) =>
                /\ Exists(archive'[p])
                /\ archive'[p] # archive[p] =>
                       /\ i <= Len(non_media)
                       /\ p = AssetDest(non_media[i])
                       /\ archive[p].size # non_media[i].size
                       /\ \A m \in Range(media) :
                              m.dir = non_media[i].dir => Lower(m.stem) # Lower(non_media[i].stem)

\* C14 as amended: the asset-copy loop never deletes an archive file, and it
\* replaces the content of an existing one only when that file is the
\* destination of a non-suppressed asset and its size differs from the
\* source's size (copy2 then overwrites it).
C14_AppendOnly == [][C14_StepKeeps]_vars

\* C14 witness: the loop has overwritten a destination file that was already
\* there with another size.
C14_Witness ==
    /\ pc = "copy"
    /\ \E k \in 1..Len(asset_log) :
           LET f == non_media[k]
           IN  /\ asset_log[k].branch = "copy"
               /\ asset_log[k].ok
               /\ Exists(archive0[AssetDest(f)])
               /\ archive0[AssetDest(f)].size # f.size
               /\ archive[AssetDest(f)] = Content(f.size, "copy")

\* C15 as stated: every copied asset is at <archive_root>/<rel>, and the output
\* of every media entry handed to transcode_with_resolve is checked and
\* rendered at <archive_root>/<dir>/<stem>.mp4.
C15_Claim ==
    /\ \A k \in 1..Len(asset_log) :
           LET f == non_media[k]
           IN  asset_log[k].branch = "copy" /\ asset_log[k].ok =>
                   archive[APath(f.dir, f.stem \o f.ext)] = Content(f.size, "copy")
    /\ \A m \in Range(calls) :
           /\ OutFile(script, m) = APath(m.dir, m.stem \o ".mp4")
           /\ ~(last.entry = m /\ last.ret = "raise" /\ last.why = "NameError")
    /\ \A m \in rendered :
           last.entry = m /\ last.rendered =>
               archive[APath(m.dir, m.stem \o ".mp4")] = last.made

\* C16 as stated: the exit status is 1 exactly when init_resolve returned None,
\* and a run that got the bundle ends with status 0.
C16_Claim ==
    /\ exit_status = 1 <=> resolve_bundle = "None"
    /\ resolve_bundle = "bundle" /\ pc \in {"done", "crashed"} => exit_status = 0

\* C17 as stated: within a run no media entry is handed to
\* transcode_with_resolve twice, and when the run has ended every entry logged
\* as failed has an output that is absent or fails is_readable, so that the
\* next run attempts it again.
C17_Claim ==
    /\ \A m \in Range(calls) : Count(calls, m) = 1
    /\ pc = "done" =>
           \A m \in failed_log : ~is_readable(script, archive[OutFile(script, m)])

\* C18 as stated: a failed unlink of a corrupt output never raises, and the
\* call returns False for it only after more than one attempt.
C18_Claim ==
    /\ ~(last.ret = "raise" /\ last.why = "OSError")
    /\ last.why = "unlink" => UnlinkAttempts > 1

C20_Claim ==
    tree = {} /\ pc \in {"done", "exit1", "crashed"} =>
        /\ archive_dirs = {<< >>}
        /\ \A p \in ArchivePaths : ~Exists(archive[p])
        /\ exit_status = 0

\* C20 as amended: over an empty source tree the run creates the archive root
\* and nothing below it, copies nothing, calls transcode_with_resolve for
\* nothing and raises nothing; it still calls init_resolve, and ends with
\* status 0 when that succeeds and with status 1 when it returns None.
C20_EmptyTree ==
    tree = {} =>
        /\ pc \in {"copy", "transcode", "done", "exit1"} => << >> \in archive_dirs
        /\ archive_dirs \subseteq {<< >>}
        /\ \A p \in ArchivePaths : ~Exists(archive[p])
        /\ asset_log = << >> /\ calls = << >> /\ rendered = {} /\ failed_log = {}
        /\ pc \notin {"crashed", "rendering"}
        /\ pc = "done" => exit_status = 0 /\ resolve_bundle = "bundle"
        /\ pc = "exit1" => exit_status = 1 /\ resolve_bundle = "None"
        /\ resolve_bundle = "bundle" => pc \in {"transcode", "done"}

\* C20 witness: the run over the empty tree is complete, the archive root is
\* the only directory of the archive tree.
C20_Witness ==
    /\ tree = {}
    /\ pc = "done"
    /\ exit_status = 0
    /\ archive_dirs = {<< >>}
    /\ \A p \in ArchivePaths : ~Exists(archive[p])

\* Where the run is, against what it has done so far.
C21_Order ==
    /\ pc = "start" =>
           /\ archive = archive0 /\ archive_dirs = dirs0
           /\ asset_log = << >> /\ calls = << >>
    /\ pc = "copy" => resolve_bundle = "unset" /\ calls = << >> /\ rendered = {}
    /\ resolve_bundle # "unset" => Len(asset_log) = Len(non_media)
    /\ pc \in {"transcode", "rendering", "done"} => resolve_bundle = "bundle"
    /\ pc = "transcode" => calls = SubSeq(media, 1, i - 1)
    /\ pc = "rendering" =>
           /\ calls = SubSeq(media, 1, i)
           /\ cur.entry = media[i]
    /\ rendered \subseteq Range(calls)

\* One step of a run: the lists are not gathered again, an asset is handled
\* only before init_resolve, and a media entry is taken up only when no call is
\* in progress.
C21_Step ==
    pc' \notin {"start", "killed"} =>
        /\ pc # "start" => media' = media /\ non_media' = non_media
        /\ asset_log' # asset_log => pc = "copy" /\ resolve_bundle = "unset" /\ calls = << >>
        /\ calls' # calls => pc = "transcode" /\ calls' = Append(calls, media[i])
        /\ rendered' # rendered => pc = "transcode" /\ pc' = "rendering"

\* C21: within a run gather_files runs once, before any write; every asset is
\* handled before init_resolve is called and before any render; the media
\* entries are handed to transcode_with_resolve in list order, each only after
\* the previous call has returned, so no render is in progress when the next
\* entry's cleanup starts.
C21_Ordering == [](C21_Order) /\ [][C21_Step]_vars

\* C21 witness: the render of the second media entry is in progress, the first
\* entry's render has returned, an asset was copied before.
C21_Witness ==
    /\ pc = "rendering"
    /\ Len(calls) = 2
    /\ last.rendered
    /\ last.entry = media[1]
    /\ \E k \in 1..Len(asset_log) : asset_log[k].branch = "copy" /\ asset_log[k].ok

\* C22 as stated: two different entries of the media list never have the same
\* output path, so in a first run over an empty archive a call that returned
\* True has rendered its own entry.
C22_Claim ==
    /\ \A m1, m2 \in Range(media) : m1 # m2 => OutFile(script, m1) # OutFile(script, m2)
    /\ run = 1 /\ last.ret = "True" => last.entry \in rendered

\* C24 as stated: in both scripts a render whose job status is not Complete
\* makes the call return False, whatever file is at the output path.
C24_Claim == last.rendered /\ last.status # "Complete" => last.ret = "False"

\* C29 as stated: in the archive script a call for a source with an alpha
\* channel ends by returning True or False, with <base>.mov as the output it
\* checked; a call for any other source uses <base>.mp4.
C29_Claim ==
    script = "archive" /\ last.ret # "none" =>
        IF has_alpha_channel(last.entry)
        THEN /\ last.ret \in {"True", "False"}
             /\ OutFile(script, last.entry) = APath(last.entry.dir, last.entry.stem \o ".mov")
        ELSE OutFile(script, last.entry) = APath(last.entry.dir, last.entry.stem \o ".mp4")

\* The media entries of f's directory whose base name equals f's up to case.
Twins(f) == {m \in Range(media) : m.dir = f.dir /\ Lower(m.stem) = Lower(f.stem)}

\* C30 as stated: when a run has completed, every asset skipped as a side-car
\* has a media file of its directory and base name whose output is readable.
C30_Claim ==
    pc = "done" =>
        \A k \in 1..Len(asset_log) :
            asset_log[k].branch = "sidecar" =>
                \E m \in Twins(non_media[k]) : is_readable(script, archive[OutFile(script, m)])

\* C30 as amended: when a run has completed, every asset skipped as a side-car
\* has a media file of its directory and base name (up to case) that was
\* handed to transcode_with_resolve; that file's output is readable if its
\* call returned True, and the side-car is left out of the archive whether or
\* not the call returned True.
C30_SidecarBacked ==
    pc = "done" =>
        \A k \in 1..Len(asset_log) :
            asset_log[k].branch = "sidecar" =>
                /\ Twins(non_media[k]) # {}
                /\ Twins(non_media[k]) \subseteq Range(calls)
                /\ \A m \in Twins(non_media[k]) \ failed_log :
                       is_readable(script, archive[OutFile(script, m)])
                /\ archive[AssetDest(non_media[k])].data # "copy"

\* C30 witness: the run has completed, a side-car was skipped, its media
\* file's transcode failed and there is no output.
C30_Witness ==
    /\ pc = "done"
    /\ \E k \in 1..Len(asset_log) :
           /\ asset_log[k].branch = "sidecar"
           /\ ~Exists(archive[AssetDest(non_media[k])])
           /\ \A m \in Twins(non_media[k]) :
                  m \in failed_log /\ ~Exists(archive[OutFile(script, m)])

\* The files a script reads besides the media.
Needed(s) == IF s = "davinci" THEN RequiredFiles ELSE {"preset", "drp"}

\* C23 as stated: when a file the script needs (preset XML, project .drp to
\* import, timeline template) is missing, init_resolve returns None and
\* transcode_with_resolve is called for no media entry.
C23_Claim ==
    env.missing \in Needed(script) /\ resolve_bundle # "unset" =>
        resolve_bundle = "None" /\ calls = << >>

\* C26 as stated: is_readable never raises, and a missing or zero-length file
\* is rejected before any probe runs, in both scripts.
C26_Claim ==
    /\ last.why # "FileNotFoundError"
    /\ last.ret # "none" /\ (~Exists(last.before) \/ last.before.size = 0) =>
           ~ProbeRuns(script, last.before)

\* The connection loop has made at most 30 attempts.
C25_Bounded == connect.attempts <= ConnectAttempts

\* An attempt is made only while `resolve` is None, one at a time; when the
\* loop ends with `resolve` None, init_resolve returns None.
C25_Step ==
    /\ connect' # connect =>
           /\ connect.resolve = "None"
           /\ connect'.attempts = connect.attempts + 1
    /\ resolve_bundle' # resolve_bundle /\ connect.resolve = "None" =>
           resolve_bundle' = "None" /\ pc' = "exit1"

\* C25 as stated: the connection loop makes at most 30 attempts, stops at the
\* first successful one and otherwise init_resolve returns None; if every
\* started render eventually stops, the run eventually terminates, with no
\* other unbounded wait.
C25_Claim ==
    /\ [](C25_Bounded)
    /\ [][C25_Step]_vars
    /\ <>(pc \in {"done", "exit1", "crashed"})

\* C25 as amended: the connection loop makes at most 30 attempts, stops at the
\* first successful one and otherwise init_resolve returns None; if every
\* started render eventually stops, the run eventually ends (status 1,
\* traceback, or completion) or, in the archive script only, has printed its
\* completion message and waits at the exit prompt.
C25_Termination ==
    /\ [](C25_Bounded)
    /\ [][C25_Step]_vars
    /\ [](pc = "prompt" => script = "archive" /\ i > Len(media))
    /\ <>(pc \in {"prompt", "done", "exit1", "crashed"})

\* C25 witness: Resolve answered at the 30th attempt, a render was started
\* and the archive script waits at its exit prompt.
C25_Witness ==
    /\ connect = [attempts |-> ConnectAttempts, resolve |-> "app"]
    /\ rendered # {}
    /\ pc = "prompt"

\* The file's suffix is in raw_exts, letter case aside.
IsRaw(f) == Lower(f.ext) \in LowerSet(raw_exts)

\* C27 as stated: once gather_files has returned, a file of the tree whose
\* suffix is in raw_exts (in any letter case) is in neither list in the archive
\* script, also when the suffix is a video extension, and is never copied nor
\* transcoded; in the davinci script it is in media and not in non_media.
C27_Claim ==
    pc # "start" =>
        \A f \in {x \in tree : IsRaw(x)} :
            IF script = "archive"
            THEN /\ f \notin Range(non_media) \cup Range(media)
                 /\ f \notin Range(calls)
                 /\ archive[AssetDest(f)].data # "copy"
            ELSE f \in Range(media) /\ f \notin Range(non_media)

\* C27 as amended: as stated for the archive script; in the davinci script a
\* file with a raw suffix is in media and not in non_media when it is under no
\* excluded directory and its name does not contain "_proxy", and is in
\* neither list otherwise.
C27_RawPolicy ==
    pc # "start" =>
        \A f \in {x \in tree : IsRaw(x)} :
            IF script = "archive"
            THEN /\ f \notin Range(non_media) \cup Range(media)
                 /\ f \notin Range(calls)
                 /\ archive[AssetDest(f)].data # "copy"
            ELSE IF UnderExcluded(f) \/ MatchesPattern(f)
            THEN f \notin Range(non_media) \cup Range(media)
            ELSE f \in Range(media) /\ f \notin Range(non_media)

\* C27 witness: the davinci script has run to completion over a tree with two
\* files of raw suffix .MOV, given as ".MOV" while the file is "take.mov": one
\* was rendered, the other, a proxy, was handed to no call.
C27_Witness ==
    /\ script = "davinci"
    /\ pc = "done"
    /\ raw_exts = {".MOV"}
    /\ \E f \in rendered : IsRaw(f) /\ f.ext = ".mov"
    /\ \E f \in tree : IsRaw(f) /\ MatchesPattern(f) /\ f \notin Range(calls)

\* C28: the destination of an asset that the copy loop copied (or found
\* already copied) is the output path of no media entry, and no call of
\* transcode_with_resolve finds at its output path a file written by the
\* asset-copy loop.
C28_NoCollision ==
    /\ \A k \in 1..Len(asset_log) :
           asset_log[k].branch \in {"copy", "existing"} =>
               \A m \in Range(media) : AssetDest(non_media[k]) # OutFile(script, m)
    /\ last.before.data \notin {"copy", "partial"}
    /\ cur.before.data \notin {"copy", "partial"}

\* C28 witness: with --video-exts .mov the asset A/clip.mp4 has the path of
\* the output of A/clip.mov and was skipped as its side-car, another asset was
\* copied, and the output was rendered.
C28_Witness ==
    /\ pc = "done"
    /\ \E k \in 1..Len(asset_log) : asset_log[k].branch = "copy" /\ asset_log[k].ok
    /\ \E k \in 1..Len(asset_log) :
           /\ asset_log[k].branch = "sidecar"
           /\ \E m \in rendered :
                  /\ AssetDest(non_media[k]) = OutFile(script, m)
                  /\ archive[OutFile(script, m)] = GoodVideo

====
